---- MODULE Spec2Model ----
(***************************************************************************)
(* A model of the tools of main.py that act on files: the template filler  *)
(* generate_monthly_report and the renamer change_month_in_name.           *)
(*                                                                         *)
(* Text is a sequence of tokens.  The braces are tokens of their own, so a *)
(* marker such as {month} is the three tokens "{", "month", "}" and the    *)
(* substring tests and replacements of the code are computed on the        *)
(* sequence as Python computes them on the characters.                     *)
(*                                                                         *)
(* A document in memory is the sequence of the children of its body        *)
(* (paragraphs, tables and the closing section properties), each carrying  *)
(* the identity of its element; a document on disk carries none.  Of the   *)
(* formatting only paragraph alignment is kept.                            *)
(***************************************************************************)
EXTENDS Integers, Sequences, FiniteSets, TLC

VARIABLES fs, fs0, call, ret, opened, saves, folder, folder0, tasks, loop, finished

vars == <<fs, fs0, call, ret, opened, saves, folder, folder0, tasks, loop, finished>>

(***************************************************************************)
(* Bounds                                                                  *)
(***************************************************************************)
MaxBlocks == 2

MaxRows == 1

MaxFiles == 2

(***************************************************************************)
(* Text                                                                    *)
(***************************************************************************)
CR == "<CR>"

LF == "<LF>"

Marker(w) == <<"{", w, "}">>

TextMarkers == <<"activities", "month", "conclusions", "recommendations">>

\* Python: sub in s
Contains(s, sub) ==
  \E i \in 0..(Len(s) - Len(sub)) : SubSeq(s, i + 1, i + Len(sub)) = sub

\* Python: s.replace(old, new), left to right, non-overlapping
RECURSIVE Replace(_, _, _)
Replace(s, old, new) ==
  IF Len(s) < Len(old) THEN s
  ELSE IF SubSeq(s, 1, Len(old)) = old
       THEN new \o Replace(SubSeq(s, Len(old) + 1, Len(s)), old, new)
       ELSE <<Head(s)>> \o Replace(Tail(s), old, new)

\* python-docx: the text read back from a run that was assigned t; a line
\* feed and a carriage return both become a break, which reads as line feed
RunText(t) == [i \in 1..Len(t) |-> IF t[i] = CR THEN LF ELSE t[i]]

\* python-docx: cell.text, the cell's paragraphs joined by line feeds
RECURSIVE JoinParas(_)
JoinParas(ps) ==
  IF Len(ps) = 0 THEN <<>>
  ELSE IF Len(ps) = 1 THEN ps[1].text
       ELSE ps[1].text \o <<LF>> \o JoinParas(Tail(ps))

CellText(c) == JoinParas(c.paras)

(***************************************************************************)
(* The document tree                                                       *)
(***************************************************************************)
\* A block is a child of the body; on disk its id is 0
Para(t, al) == [kind |-> "p", id |-> 0, text |-> t, align |-> al, rows |-> <<>>]

Cell(ps) == [paras |-> ps]

CellPara(t, al) == [text |-> t, align |-> al]

Tbl(rs) == [kind |-> "tbl", id |-> 0, text |-> <<>>, align |-> "none", rows |-> rs]

SectPr == [kind |-> "sectPr", id |-> 0, text |-> <<>>, align |-> "none", rows |-> <<>>]

\* Document(path): every child of the body gets an identity
Parse(blocks) == [i \in 1..Len(blocks) |-> [blocks[i] EXCEPT !.id = i]]

\* doc.save(path): the tree is written without identities
Serialize(body) == [i \in 1..Len(body) |-> [body[i] EXCEPT !.id = 0]]

\* doc.paragraphs / doc.tables: the body's own children of that kind, in order
RECURSIVE OfKind(_, _)
OfKind(body, k) ==
  IF Len(body) = 0 THEN <<>>
  ELSE (IF Head(body).kind = k THEN <<Head(body)>> ELSE <<>>) \o OfKind(Tail(body), k)

\* lxml: parent.index(element), 0-based
IndexOf(body, id) == (CHOOSE k \in 1..Len(body) : body[k].id = id) - 1

\* lxml: parent.remove(element)
Remove(body, id) ==
  LET k == IndexOf(body, id) + 1
  IN  SubSeq(body, 1, k - 1) \o SubSeq(body, k + 1, Len(body))

InBody(body, id) == \E k \in 1..Len(body) : body[k].id = id

\* lxml: parent.insert(index, element) with a 0-based index.  The child now at
\* that index is looked up first; the element is put before it (moved, if it
\* is already a child), or appended if there is no such child.
ParentInsert(body, index, elem) ==
  IF index >= Len(body)
  THEN (IF InBody(body, elem.id) THEN Remove(body, elem.id) ELSE body) \o <<elem>>
  ELSE LET target == body[index + 1]
       IN  IF target.id = elem.id THEN body
           ELSE LET rest == IF InBody(body, elem.id) THEN Remove(body, elem.id) ELSE body
                    k == IndexOf(rest, target.id)
                IN  SubSeq(rest, 1, k) \o <<elem>> \o SubSeq(rest, k + 1, Len(rest))

\* python-docx: body.add_table puts the new table before the section properties
AddTable(body, tbl) ==
  IF Len(body) > 0 /\ body[Len(body)].kind = "sectPr"
  THEN SubSeq(body, 1, Len(body) - 1) \o <<tbl, body[Len(body)]>>
  ELSE body \o <<tbl>>

(***************************************************************************)
(* Building the tables                                                     *)
(***************************************************************************)
TitleMarker == Marker("titleActivities")

DescriptionMarker == Marker("descriptionActivities")

TitleHeaders == <<"ACTIVIDADES", "MESES">>

DescriptionHeaders == <<"Actividad Planificada", "Actividad Ejecutada", "Verificador">>

TitleKeys == <<"actividad", "mes">>

DescriptionKeys == <<"actividad", "descripcion", "verificador">>

\* create_table_with_header: one row, one cell per header, the header as a run
\* of the cell's paragraph
HeaderRow(headers) ==
  [i \in 1..Len(headers) |-> Cell(<<CellPara(<<headers[i]>>, "none")>>)]

\* python-docx: cell.text = t leaves the cell with one new paragraph holding t
SetCellText(t) == Cell(<<CellPara(RunText(t), "none")>>)

Min(S) == CHOOSE x \in S : \A y \in S : x <= y

\* the loop over the items: a row is added, then the item's keys are read in
\* the order of the columns; a missing key raises KeyError(key)
RECURSIVE FillRows(_, _)
FillRows(items, keys) ==
  IF Len(items) = 0 THEN [rows |-> <<>>, err |-> ""]
  ELSE LET item == Head(items)
           missing == {k \in 1..Len(keys) : keys[k] \notin DOMAIN item}
       IN  IF missing # {}
           THEN [rows |-> <<>>, err |-> keys[Min(missing)]]
           ELSE LET rest == FillRows(Tail(items), keys)
                IN  [rows |-> <<[k \in 1..Len(keys) |-> SetCellText(item[keys[k]])]>>
                                \o rest.rows,
                     err |-> rest.err]

\* insert_title_table: an empty paragraph put at the index
InsertTitleTable(body, index, id) ==
  ParentInsert(body, index,
               [kind |-> "p", id |-> id, text |-> <<>>, align |-> "none", rows |-> <<>>])

\* the index a loop that trusted its own counter would use
MarkerIndexStale(body, para, i) == i

\* parent.index(para._element): where the marker paragraph is now (i is the
\* loop's own counter, which the code does not use)
MarkerIndex(body, para, i) == IndexOf(body, para.id)

\* the body of the first loop for one paragraph of the list taken at its start
TableStep(st, para, i, a) ==
  IF ~(Contains(para.text, TitleMarker) \/ Contains(para.text, DescriptionMarker))
  THEN st
  ELSE LET index == MarkerIndex(st.body, para, i)
           b1 == Remove(st.body, para.id)
           isTitle == Contains(para.text, TitleMarker)
           b2 == InsertTitleTable(b1, index, st.nextId)
           headers == IF isTitle THEN TitleHeaders ELSE DescriptionHeaders
           filled == IF isTitle THEN FillRows(a.title_activities, TitleKeys)
                     ELSE FillRows(a.description_activities, DescriptionKeys)
           tbl == [kind |-> "tbl", id |-> st.nextId + 1, text |-> <<>>, align |-> "none",
                   rows |-> <<HeaderRow(headers)>> \o filled.rows]
           b3 == AddTable(b2, tbl)
       IN  IF filled.err # ""
           THEN [st EXCEPT !.body = b3, !.err = filled.err]
           ELSE [body |-> ParentInsert(b3, index + 1, tbl), nextId |-> st.nextId + 2,
                 replaced |-> TRUE, err |-> ""]

RECURSIVE TablePass(_, _, _, _)
TablePass(st, paras, i, a) ==
  IF i >= Len(paras) \/ st.err # "" THEN st
  ELSE TablePass(TableStep(st, paras[i + 1], i, a), paras, i + 1, a)

(***************************************************************************)
(* Substituting the text markers                                           *)
(***************************************************************************)
\* any(x in text for x in ["{activities}", "{month}", "{conclusions}", "{recommendations}"])
HasTextMarker(t) == \E k \in 1..Len(TextMarkers) : Contains(t, Marker(TextMarkers[k]))

\* if marker in para.text: para.text = para.text.replace(marker, value), and
\* for three of the markers para.alignment = JUSTIFY.  Assigning the text of
\* a paragraph keeps its properties.
SubstPara(p, w, value, justify) ==
  IF Contains(p.text, Marker(w))
  THEN [p EXCEPT !.text = RunText(Replace(p.text, Marker(w), value)),
                 !.align = IF justify THEN "justify" ELSE @]
  ELSE p

FillPara(p, a) ==
  IF ~HasTextMarker(p.text) THEN p
  ELSE LET p1 == SubstPara(p, "activities", a.activities, TRUE)
           p2 == SubstPara(p1, "month", a.month, FALSE)
           p3 == SubstPara(p2, "conclusions", a.conclusiones, TRUE)
       IN  SubstPara(p3, "recommendations", a.recommendations, TRUE)

\* the second loop: every paragraph of the body as it is after the first
ParagraphPass(st, a) ==
  [st EXCEPT
     !.body = [k \in 1..Len(st.body) |->
                 IF st.body[k].kind = "p" THEN FillPara(st.body[k], a) ELSE st.body[k]],
     !.replaced = @ \/ \E k \in 1..Len(st.body) :
                         st.body[k].kind = "p" /\ HasTextMarker(st.body[k].text)]

\* if marker in cell.text: cell.text = cell.text.replace(marker, value), and
\* for three of the markers every paragraph of the cell is justified.
\* Assigning the text of a cell replaces its content by one new paragraph.
SubstCell(c, w, value, justify) ==
  IF Contains(CellText(c), Marker(w))
  THEN LET c1 == SetCellText(Replace(CellText(c), Marker(w), value))
       IN  IF justify
           THEN Cell([k \in 1..Len(c1.paras) |-> [c1.paras[k] EXCEPT !.align = "justify"]])
           ELSE c1
  ELSE c

FillCell(c, a) ==
  IF ~HasTextMarker(CellText(c)) THEN c
  ELSE LET c1 == SubstCell(c, "activities", a.activities, TRUE)
           c2 == SubstCell(c1, "month", a.month, FALSE)
           c3 == SubstCell(c2, "conclusions", a.conclusiones, TRUE)
       IN  SubstCell(c3, "recommendations", a.recommendations, TRUE)

FillRowsOf(rows, a) ==
  [r \in 1..Len(rows) |-> [c \in 1..Len(rows[r]) |-> FillCell(rows[r][c], a)]]

TableHasTextMarker(rows) ==
  \E r \in 1..Len(rows) : \E c \in 1..Len(rows[r]) : HasTextMarker(CellText(rows[r][c]))

\* the third loop: every cell of every table of the body as it is then
CellPass(st, a) ==
  [st EXCEPT
     !.body = [k \in 1..Len(st.body) |->
                 IF st.body[k].kind = "tbl"
                 THEN [st.body[k] EXCEPT !.rows = FillRowsOf(@, a)]
                 ELSE st.body[k]],
     !.replaced = @ \/ \E k \in 1..Len(st.body) :
                         st.body[k].kind = "tbl" /\ TableHasTextMarker(st.body[k].rows)]

(***************************************************************************)
(* Files                                                                   *)
(***************************************************************************)
Path(stem, ext) == [stem |-> stem, ext |-> ext]

NoFile == [kind |-> "none", blocks |-> <<>>]

\* a file that is no package python-docx can open
Raw == [kind |-> "raw", blocks |-> <<>>]

Docx(blocks) == [kind |-> "docx", blocks |-> blocks]

\* os.path.isfile(report_filepath)
IsFile(fsv, path) == fsv[path].kind # "none"

\* str.lower on an extension
Lower(ext) ==
  CASE ext = ".DOC" -> ".doc"
    [] ext = ".DOCX" -> ".docx"
    [] ext = ".TXT" -> ".txt"
    [] OTHER -> ext

\* a list of extensions that lets text files through
SupportedWithText(path) == Lower(path.ext) \in {".doc", ".docx", ".txt"}

\* os.path.splitext(report_filepath)[1].lower() in [".doc", ".docx"]
Supported(path) == Lower(path.ext) \in {".doc", ".docx"}

(***************************************************************************)
(* generate_monthly_report                                                 *)
(***************************************************************************)
Error(text) == [key |-> "error", text |-> text, list |-> <<>>]

Message(text) == [key |-> "message", text |-> text, list |-> <<>>]

NotFoundError(path) == Error(<<"File '", path.stem, path.ext, "' does not exist.">>)

UnsupportedError == Error(<<"Only DOC or DOCX files are supported.">>)

PackageNotFoundError(path) == Error(<<"Package not found at '", path.stem, path.ext, "'">>)

KeyError(key) == Error(<<"'", key, "'">>)

Saved(path) == Message(<<"Replaced placeholders and saved '", path.stem, path.ext, "'.">>)

NoPlaceholders == Message(<<"No placeholders found in the document.">>)

\* what a call leaves: its return value, the files, and whether it opened and saved
Outcome(r, fsv, o, s) == [ret |-> r, fs |-> fsv, opened |-> o, saved |-> s]

\* without the except clause the exception reaches the caller
Uncaught(fsv, e, o) == Outcome([key |-> "raised", text |-> e.text, list |-> <<>>], fsv, o, 0)

\* except Exception as e: return {"error": str(e)}
Caught(fsv, e, o) == Outcome(e, fsv, o, 0)

\* a save that does not look at the flag
FinishAlways(fsv, path, st) ==
  Outcome(Saved(path), [fsv EXCEPT ![path] = Docx(Serialize(st.body))], 1, 1)

\* if replaced: doc.save(report_filepath) ... else ...
Finish(fsv, path, st) ==
  IF st.replaced
  THEN Outcome(Saved(path), [fsv EXCEPT ![path] = Docx(Serialize(st.body))], 1, 1)
  ELSE Outcome(NoPlaceholders, fsv, 1, 0)

Generate(fsv, a) ==
  IF ~IsFile(fsv, a.path) THEN Outcome(NotFoundError(a.path), fsv, 0, 0)
  ELSE IF ~Supported(a.path) THEN Outcome(UnsupportedError, fsv, 0, 0)
  ELSE IF fsv[a.path].kind # "docx" THEN Caught(fsv, PackageNotFoundError(a.path), 1)
  ELSE LET body == Parse(fsv[a.path].blocks)
           st0 == [body |-> body, nextId |-> Len(body) + 1, replaced |-> FALSE, err |-> ""]
           st1 == TablePass(st0, OfKind(body, "p"), 0, a)
       IN  IF st1.err # "" THEN Caught(fsv, KeyError(st1.err), 1)
           ELSE Finish(fsv, a.path, CellPass(ParagraphPass(st1, a), a))

(***************************************************************************)
(* The templates, the files and the arguments of the model                 *)
(***************************************************************************)
SeqsUpTo(S, n) == UNION {[1..k -> S] : k \in 0..n}

P(w) == Marker(w)

\* the body children a template is made of
BlockSet ==
  { Para(<<"x">>, "center"),
    Para(P("month"), "center"),
    Para(P("activities") \o <<"x">> \o P("conclusions"), "left"),
    Para(<<"x">> \o TitleMarker, "left"),
    Para(DescriptionMarker \o P("month"), "left"),
    Para(DescriptionMarker \o TitleMarker, "none"),
    Tbl(<< <<Cell(<<CellPara(P("activities") \o P("month"), "left")>>),
             Cell(<<CellPara(<<"x">>, "center"), CellPara(P("recommendations"), "center")>>)>>,
           <<Cell(<<CellPara(TitleMarker, "left")>>)>> >>) }

Templates == {b \o <<SectPr>> : b \in SeqsUpTo(BlockSet, MaxBlocks)}

ReportPath == Path("report", ".docx")

LegacyPath == Path("legacy", ".DOC")

NotesPath == Path("notes", ".txt")

MissingPath == Path("missing", ".docx")

MissingTxtPath == Path("missing", ".txt")

Paths == {ReportPath, LegacyPath, NotesPath, MissingPath, MissingTxtPath}

\* the files before the call: the template under a supported and under an
\* unsupported name, and a legacy binary document
DiskWith(d) ==
  [p \in Paths |->
     CASE p = ReportPath -> Docx(d)
       [] p = NotesPath -> Docx(d)
       [] p = LegacyPath -> Raw
       [] OTHER -> NoFile]

MonthValues == {<<"MAYO">>, P("activities")}

ActivitiesValues == {<<"did">>, P("month")}

ConclusionsValues == {<<"fine">>}

RecommendationsValues == {<<"more">>}

TitleItems ==
  { [actividad |-> <<"A">>, mes |-> <<"March">>],
    [actividad |-> P("month"), mes |-> <<"April", CR>>] }

DescriptionItems ==
  { [actividad |-> <<"A">>, descripcion |-> <<"done">>, verificador |-> <<"photo">>],
    [actividad |-> <<"B">>, descripcion |-> <<"half">>] }

NoCall ==
  [op |-> "none", path |-> ReportPath, month |-> <<>>, activities |-> <<>>,
   conclusiones |-> <<>>, recommendations |-> <<>>,
   title_activities |-> <<>>, description_activities |-> <<>>,
   now |-> 0, order |-> <<>>]

NoRet == [key |-> "none", text |-> <<>>, list |-> <<>>]

NoFolder == [kind |-> "none", entries |-> {}]

\* the document an invocation holds before it has opened one
NoDoc == [body |-> <<>>, nextId |-> 0, replaced |-> FALSE, err |-> ""]

\* the invocations the host may have in flight at once
Tasks == {1, 2}

NoTask == [pc |-> "idle", args |-> NoCall, st |-> NoDoc, ret |-> NoRet, overlap |-> FALSE]

NoTasks == [i \in Tasks |-> NoTask]

Init ==
  /\ \E d \in Templates : fs = DiskWith(d)
  /\ fs0 = fs
  /\ call = NoCall
  /\ ret = NoRet
  /\ opened = 0
  /\ saves = 0
  /\ folder = NoFolder
  /\ folder0 = folder
  /\ tasks = NoTasks
  /\ loop = 0
  /\ finished = <<>>

\* one call of the tool, from its arguments to its return
generate_monthly_report ==
  /\ call.op = "none"
  /\ \E path \in Paths, month \in MonthValues, activities \in ActivitiesValues,
        conclusiones \in ConclusionsValues, recommendations \in RecommendationsValues,
        title_activities \in SeqsUpTo(TitleItems, MaxRows),
        description_activities \in SeqsUpTo(DescriptionItems, MaxRows) :
       LET a == [op |-> "generate_monthly_report", path |-> path, month |-> month,
                 activities |-> activities, conclusiones |-> conclusiones,
                 recommendations |-> recommendations,
                 title_activities |-> title_activities,
                 description_activities |-> description_activities,
                 now |-> 0, order |-> <<>>]
           out == Generate(fs, a)
       IN  /\ call' = a
           /\ ret' = out.ret
           /\ fs' = out.fs
           /\ opened' = out.opened
           /\ saves' = out.saved
  /\ UNCHANGED <<fs0, folder, folder0, tasks, loop, finished>>

Next == generate_monthly_report

Spec == Init /\ [][Next]_vars

(***************************************************************************)
(* change_month_in_name                                                    *)
(*                                                                         *)
(* A file name is a sequence of tokens; a month name is one token, but     *)
(* "mayo", which is "may" followed by "o".  os.rename is the POSIX one: it *)
(* replaces an existing file and refuses to replace a directory by a file. *)
(***************************************************************************)
months ==
  << <<"january">>, <<"february">>, <<"march">>, <<"april">>, <<"may">>, <<"june">>,
     <<"july">>, <<"august">>, <<"september">>, <<"october">>, <<"november">>, <<"december">>,
     <<"enero">>, <<"febrero">>, <<"marzo">>, <<"abril">>, <<"may", "o">>, <<"junio">>,
     <<"julio">>, <<"agosto">>, <<"septiembre">>, <<"octubre">>, <<"noviembre">>, <<"diciembre">> >>

spanish_months ==
  << <<"ENERO">>, <<"FEBRERO">>, <<"MARZO">>, <<"ABRIL">>, <<"MAY", "O">>, <<"JUNIO">>,
     <<"JULIO">>, <<"AGOSTO">>, <<"SEPTIEMBRE">>, <<"OCTUBRE">>, <<"NOVIEMBRE">>, <<"DICIEMBRE">> >>

\* re.IGNORECASE: a token without its case
LowerToken(t) ==
  CASE t = "ENERO" -> "enero" [] t = "FEBRERO" -> "febrero" [] t = "MARZO" -> "marzo"
    [] t = "ABRIL" -> "abril" [] t = "MAY" -> "may" [] t = "O" -> "o"
    [] t = "JUNIO" -> "junio" [] t = "JULIO" -> "julio" [] t = "AGOSTO" -> "agosto"
    [] t = "SEPTIEMBRE" -> "septiembre" [] t = "OCTUBRE" -> "octubre"
    [] t = "NOVIEMBRE" -> "noviembre" [] t = "DICIEMBRE" -> "diciembre"
    [] t = "March" -> "march" [] t = "JUNE" -> "june"
    [] OTHER -> t

LowerName(n) == [i \in 1..Len(n) |-> LowerToken(n[i])]

\* the alternative of the pattern that matches at position i: the first in the
\* order of the list, 0 if none does
MatchAt(name, i) ==
  LET ks == {k \in 1..Len(months) :
               /\ i + Len(months[k]) - 1 <= Len(name)
               /\ LowerName(SubSeq(name, i, i + Len(months[k]) - 1)) = months[k]}
  IN  IF ks = {} THEN 0 ELSE Min(ks)

\* pattern.search(filename): the leftmost position with a match, 0 if none
Search(name) ==
  LET ps == {i \in 1..Len(name) : MatchAt(name, i) # 0}
  IN  IF ps = {} THEN 0 ELSE Min(ps)

\* pattern.sub(repl, filename, count=1)
SubFirst(name, repl) ==
  LET i == Search(name)
  IN  IF i = 0 THEN name
      ELSE SubSeq(name, 1, i - 1) \o repl
           \o SubSeq(name, i + Len(months[MatchAt(name, i)]), Len(name))

File(n) == [name |-> n, kind |-> "file", data |-> n]

Dir(n) == [name |-> n, kind |-> "dir", data |-> n]

Renamed(old, new) == Message(<<"Renamed '", old, "' to '", new, "'.">>)

RenameError(old, e) == Error(<<"Error renaming '", old, "': ", e>>)

\* os.rename(file_path, new_file_path) inside its try
Rename(st, src, new) ==
  IF new = src.name THEN [st EXCEPT !.results = Append(@, Renamed(src.name, new))]
  ELSE IF \E e \in st.entries : e.name = new /\ e.kind = "dir"
       THEN [st EXCEPT !.results = Append(@, RenameError(src.name, "Is a directory"))]
       ELSE [entries |-> {e \in st.entries : e.name # src.name /\ e.name # new}
                           \cup {[src EXCEPT !.name = new]},
             results |-> Append(st.results, Renamed(src.name, new))]

\* the body of the loop for one name of the listing
RenameStep(st, filename, current_month_spanish) ==
  IF \E e \in st.entries : e.name = filename /\ e.kind = "file"
  THEN IF Search(filename) # 0
       THEN Rename(st, CHOOSE e \in st.entries : e.name = filename,
                   SubFirst(filename, current_month_spanish))
       ELSE st
  ELSE st

RECURSIVE RenameLoop(_, _, _)
RenameLoop(st, listing, current_month_spanish) ==
  IF Len(listing) = 0 THEN st
  ELSE RenameLoop(RenameStep(st, Head(listing), current_month_spanish),
                  Tail(listing), current_month_spanish)

FolderError == Error(<<"Folder '", "reports", "' does not exist.">>)

\* now is datetime.now().month; listing is os.listdir(folder_path)
ChangeMonth(fd, now, listing) ==
  IF fd.kind # "dir" THEN [folder |-> fd, ret |-> FolderError]
  ELSE LET st == RenameLoop([entries |-> fd.entries, results |-> <<>>], listing,
                            spanish_months[now])
       IN  [folder |-> [fd EXCEPT !.entries = st.entries],
            ret |-> [key |-> "list", text |-> <<>>, list |-> st.results]]

EntrySet ==
  { File(<<"informe_", "enero", ".txt">>),
    File(<<"informe_", "FEBRERO", ".txt">>),
    File(<<"plan_", "MAY", "O", ".pdf">>),
    File(<<"JUNE", "_", "julio">>),
    File(<<"notas", ".txt">>),
    Dir(<<"informe_", "MARZO", ".txt">>) }

Folders ==
  {NoFolder} \cup {[kind |-> "dir", entries |-> es] :
                     es \in {x \in SUBSET EntrySet : Cardinality(x) <= MaxFiles}}

\* the orders os.listdir may give the names in
Listings(es) ==
  {l \in [1..Cardinality(es) -> {e.name : e \in es}] :
     \A i, j \in 1..Cardinality(es) : i # j => l[i] # l[j]}

InitRename ==
  /\ fs = DiskWith(<<SectPr>>)
  /\ fs0 = fs
  /\ call = NoCall
  /\ ret = NoRet
  /\ opened = 0
  /\ saves = 0
  /\ folder \in Folders
  /\ folder0 = folder
  /\ tasks = NoTasks
  /\ loop = 0
  /\ finished = <<>>

change_month_in_name ==
  /\ call.op = "none"
  /\ \E now \in 1..12, listing \in Listings(folder.entries) :
       LET out == ChangeMonth(folder, now, listing)
       IN  /\ call' = [NoCall EXCEPT !.op = "change_month_in_name", !.now = now,
                                     !.order = listing]
           /\ ret' = out.ret
           /\ folder' = out.folder
  /\ UNCHANGED <<fs, fs0, opened, saves, folder0, tasks, loop, finished>>

NextRename == change_month_in_name

SpecRename == InitRename /\ [][NextRename]_vars

(***************************************************************************)
(* Two invocations of generate_monthly_report in one server process        *)
(*                                                                         *)
(* The tool is a coroutine function.  The host creates one coroutine per   *)
(* request and the event loop of the process runs one coroutine at a time, *)
(* from where it stands to its next await or to its return.  The body is   *)
(* followed here position by position: the checks and Document(...), the   *)
(* three loops on the tree in memory, and the save and return.             *)
(***************************************************************************)

\* the positions of the body at which the coroutine awaits: it has none
AwaitPoints == {}

\* an await between Document(...) and the loops
AwaitsAfterOpen(pc) == pc = "opened"

\* whether the coroutine gives the event loop back when it stands at pc
Awaits(pc) == pc \in AwaitPoints

\* the path checks and doc = Document(report_filepath)
OpenDocument(fsv, a) ==
  IF ~IsFile(fsv, a.path)
  THEN [pc |-> "done", ret |-> NotFoundError(a.path), st |-> NoDoc]
  ELSE IF ~Supported(a.path)
  THEN [pc |-> "done", ret |-> UnsupportedError, st |-> NoDoc]
  ELSE IF fsv[a.path].kind # "docx"
  THEN [pc |-> "done", ret |-> Caught(fsv, PackageNotFoundError(a.path), 1).ret, st |-> NoDoc]
  ELSE LET body == Parse(fsv[a.path].blocks)
       IN  [pc |-> "opened", ret |-> NoRet,
            st |-> [body |-> body, nextId |-> Len(body) + 1, replaced |-> FALSE, err |-> ""]]

\* the three loops on the tree the invocation holds
FillDocument(st, a) ==
  LET st1 == TablePass(st, OfKind(st.body, "p"), 0, a)
  IN  IF st1.err # "" THEN st1 ELSE CellPass(ParagraphPass(st1, a), a)

\* the arguments of the requests in flight
ConcurrentPaths == {ReportPath, NotesPath}

ConcurrentCalls ==
  { [op |-> "generate_monthly_report", path |-> path, month |-> month,
     activities |-> <<"did">>, conclusiones |-> <<"fine">>,
     recommendations |-> <<"more">>,
     title_activities |-> <<[actividad |-> <<"A">>, mes |-> <<"March">>]>>,
     description_activities |-> description_activities,
     now |-> 0, order |-> <<>>] :
       path \in ConcurrentPaths, month \in MonthValues,
       description_activities \in {<<x>> : x \in DescriptionItems} }

\* the event loop after task i has taken a step to pc
LoopAfter(i, pc) == IF pc = "done" \/ Awaits(pc) THEN 0 ELSE i

\* the event loop lets task i run: it is free, or i is the one running
Runs(i) == loop = 0 \/ loop = i

InitConcurrent ==
  /\ \E d \in Templates : fs = DiskWith(d)
  /\ fs0 = fs
  /\ call = NoCall
  /\ ret = NoRet
  /\ opened = 0
  /\ saves = 0
  /\ folder = NoFolder
  /\ folder0 = folder
  /\ tasks = NoTasks
  /\ loop = 0
  /\ finished = <<>>

\* the host receives a request and creates the coroutine of the call
dispatch(i) ==
  /\ loop = 0
  /\ tasks[i].pc = "idle"
  /\ \E a \in ConcurrentCalls :
       LET others == {j \in Tasks \ {i} : tasks[j].pc \notin {"idle", "done"}}
       IN  tasks' = [j \in Tasks |->
                       IF j = i
                       THEN [tasks[i] EXCEPT !.pc = "ready", !.args = a,
                                             !.overlap = others # {}]
                       ELSE IF j \in others THEN [tasks[j] EXCEPT !.overlap = TRUE]
                       ELSE tasks[j]]
  /\ UNCHANGED <<fs, fs0, call, ret, opened, saves, folder, folder0, loop, finished>>

\* from the entry of the body to the opened document, or to an error returned
open(i) ==
  /\ Runs(i)
  /\ tasks[i].pc = "ready"
  /\ LET o == OpenDocument(fs, tasks[i].args)
     IN  /\ tasks' = [tasks EXCEPT ![i].pc = o.pc, ![i].ret = o.ret, ![i].st = o.st]
         /\ loop' = LoopAfter(i, o.pc)
         /\ finished' = IF o.pc = "done" THEN Append(finished, i) ELSE finished
  /\ UNCHANGED <<fs, fs0, call, ret, opened, saves, folder, folder0>>

\* the tables generated and the markers substituted in the tree in memory
fill(i) ==
  /\ Runs(i)
  /\ tasks[i].pc = "opened"
  /\ LET st == FillDocument(tasks[i].st, tasks[i].args)
         pc == IF st.err # "" THEN "done" ELSE "filled"
     IN  /\ tasks' = [tasks EXCEPT ![i].pc = pc, ![i].st = st,
                        ![i].ret = IF st.err # ""
                                   THEN Caught(fs, KeyError(st.err), 1).ret
                                   ELSE NoRet]
         /\ loop' = LoopAfter(i, pc)
         /\ finished' = IF pc = "done" THEN Append(finished, i) ELSE finished
  /\ UNCHANGED <<fs, fs0, call, ret, opened, saves, folder, folder0>>

\* if replaced: doc.save(report_filepath), and the return of the message
save(i) ==
  /\ Runs(i)
  /\ tasks[i].pc = "filled"
  /\ LET out == Finish(fs, tasks[i].args.path, tasks[i].st)
     IN  /\ fs' = out.fs
         /\ tasks' = [tasks EXCEPT ![i].pc = "done", ![i].ret = out.ret]
  /\ loop' = LoopAfter(i, "done")
  /\ finished' = Append(finished, i)
  /\ UNCHANGED <<fs0, call, ret, opened, saves, folder, folder0>>

NextConcurrent == \E i \in Tasks : dispatch(i) \/ open(i) \/ fill(i) \/ save(i)

SpecConcurrent == InitConcurrent /\ [][NextConcurrent]_vars

(***************************************************************************)
(* The claims about generate_monthly_report                                *)
(***************************************************************************)
Called == call.op = "generate_monthly_report"

\* the call returned the success message: the document was saved
Succeeded == Called /\ ret = Saved(call.path)

OrigDoc == fs0[call.path].blocks

SavedDoc == fs[call.path].blocks

SixMarkers ==
  {Marker(w) : w \in {"activities", "month", "conclusions", "recommendations",
                      "titleActivities", "descriptionActivities"}}

HasAnyMarker(t) == \E m \in SixMarkers : Contains(t, m)

HasTableMarker(t) == Contains(t, TitleMarker) \/ Contains(t, DescriptionMarker)

IsMarkerPara(b) == b.kind = "p" /\ HasTableMarker(b.text)

AllCells(b) ==
  UNION {{b.rows[r][c] : c \in 1..Len(b.rows[r])} : r \in 1..Len(b.rows)}

\* where the k-th block of the template is in the filled document: every
\* marker paragraph before it has become two blocks
Pos(blocks, k) == k + Cardinality({j \in 1..(k - 1) : IsMarkerPara(blocks[j])})

\* C1: after a call that returned the success message, none of the six marker
\* strings occurs in the text of any paragraph or any table cell of the saved
\* document, for every template and every choice of supplied values.
C1_NoMarkerRemains ==
  Succeeded =>
    \A k \in 1..Len(SavedDoc) :
      /\ SavedDoc[k].kind = "p" => ~HasAnyMarker(SavedDoc[k].text)
      /\ SavedDoc[k].kind = "tbl" =>
           \A c \in AllCells(SavedDoc[k]) : ~HasAnyMarker(CellText(c))

\* the text with every occurrence of a plain-text marker replaced, in one
\* pass and at once, by the value supplied for it
RECURSIVE Substituted(_, _)
Substituted(t, a) ==
  IF Len(t) = 0 THEN <<>>
  ELSE IF Len(t) >= 3 /\ SubSeq(t, 1, 3) = Marker("activities")
       THEN a.activities \o Substituted(SubSeq(t, 4, Len(t)), a)
  ELSE IF Len(t) >= 3 /\ SubSeq(t, 1, 3) = Marker("month")
       THEN a.month \o Substituted(SubSeq(t, 4, Len(t)), a)
  ELSE IF Len(t) >= 3 /\ SubSeq(t, 1, 3) = Marker("conclusions")
       THEN a.conclusiones \o Substituted(SubSeq(t, 4, Len(t)), a)
  ELSE IF Len(t) >= 3 /\ SubSeq(t, 1, 3) = Marker("recommendations")
       THEN a.recommendations \o Substituted(SubSeq(t, 4, Len(t)), a)
  ELSE <<Head(t)>> \o Substituted(Tail(t), a)

\* C2: one call replaces every occurrence of the four plain-text markers, in
\* the body paragraphs and in the table cells, by exactly the value supplied for
\* it, inserted verbatim whatever the value contains: the final text of the
\* paragraph or cell is the original text with the occurrences substituted.
\* (Stated for the paragraphs that stay, those without a table marker.)
C2_VerbatimSubstitution ==
  Succeeded =>
    \A k \in 1..Len(OrigDoc) :
      LET b == OrigDoc[k]
          n == SavedDoc[Pos(OrigDoc, k)]
      IN  /\ (b.kind = "p" /\ ~HasTableMarker(b.text)) =>
               n.text = Substituted(b.text, call)
          /\ b.kind = "tbl" =>
               \A r \in 1..Len(b.rows) : \A c \in 1..Len(b.rows[r]) :
                 CellText(n.rows[r][c]) = Substituted(CellText(b.rows[r][c]), call)

\* a marker the three loops look for: any of the six in a paragraph of the
\* body, any of the four plain-text ones in a cell of a table of the body
MarkerToFind(blocks) ==
  \E k \in 1..Len(blocks) :
    \/ blocks[k].kind = "p" /\ HasAnyMarker(blocks[k].text)
    \/ blocks[k].kind = "tbl" /\ \E c \in AllCells(blocks[k]) : HasTextMarker(CellText(c))

NoMarkerAnywhere(blocks) ==
  \A k \in 1..Len(blocks) :
    /\ ~HasAnyMarker(blocks[k].text)
    /\ \A c \in AllCells(blocks[k]) : ~HasAnyMarker(CellText(c))

\* C3: a call that returns a message writes the file exactly when a marker was
\* found: then it saves to report_filepath (and to no other file) and returns
\* the success message naming that path; otherwise, and so whenever the
\* document holds no marker at all, it returns the 'No placeholders found'
\* message, saves nothing and leaves every file as it was.
C3_SavesIffMarkerFound ==
  (Called /\ ret.key = "message") =>
    /\ saves = 1 <=> MarkerToFind(OrigDoc)
    /\ saves = 1 =>
         /\ ret = Saved(call.path)
         /\ fs[call.path].kind = "docx"
         /\ \A q \in Paths \ {call.path} : fs[q] = fs0[q]
    /\ saves = 0 => ret = NoPlaceholders /\ fs = fs0
    /\ NoMarkerAnywhere(OrigDoc) => saves = 0

\* a call that saved a document in which the only marker found was in a cell
C3_Witness ==
  /\ Called /\ saves = 1 /\ ret = Saved(call.path) /\ fs # fs0
  /\ \A k \in 1..Len(OrigDoc) : OrigDoc[k].kind = "p" => ~HasAnyMarker(OrigDoc[k].text)

\* a call on a document without any marker
C3_WitnessNoMarker ==
  Called /\ ret = NoPlaceholders /\ NoMarkerAnywhere(OrigDoc) /\ Len(OrigDoc) > 1

ItemsFor(b, a) ==
  IF Contains(b.text, TitleMarker) THEN a.title_activities ELSE a.description_activities

KeysFor(b) == IF Contains(b.text, TitleMarker) THEN TitleKeys ELSE DescriptionKeys

HeadersFor(b) == IF Contains(b.text, TitleMarker) THEN TitleHeaders ELSE DescriptionHeaders

\* C4: in the saved document the table generated for a {titleActivities}
\* marker has len(title_activities)+1 rows and 2 columns, the one generated for
\* {descriptionActivities} has len(description_activities)+1 rows and 3
\* columns; row 0 is the header row and data row k holds the fields of the k-th
\* list entry, in list order and column order, exactly as supplied.
C4_GeneratedTable ==
  Succeeded =>
    \A k \in 1..Len(OrigDoc) :
      IsMarkerPara(OrigDoc[k]) =>
        LET t == SavedDoc[Pos(OrigDoc, k) + 1]
            items == ItemsFor(OrigDoc[k], call)
            keys == KeysFor(OrigDoc[k])
            headers == HeadersFor(OrigDoc[k])
        IN  /\ t.kind = "tbl"
            /\ Len(t.rows) = Len(items) + 1
            /\ \A r \in 1..Len(t.rows) : Len(t.rows[r]) = Len(keys)
            /\ \A c \in 1..Len(keys) : CellText(t.rows[1][c]) = <<headers[c]>>
            /\ \A r \in 1..Len(items) : \A c \in 1..Len(keys) :
                 CellText(t.rows[r + 1][c]) = items[r][keys[c]]

Justifying(t) ==
  \/ Contains(t, Marker("activities"))
  \/ Contains(t, Marker("conclusions"))
  \/ Contains(t, Marker("recommendations"))

\* C5: after a fill every body paragraph and every table cell in which
\* {activities}, {conclusions} or {recommendations} was substituted ends with
\* justified alignment (a cell: all of its paragraphs), whatever other
\* plain-text markers it held; a paragraph in which only {month} was
\* substituted keeps the alignment it had.
C5_Justified ==
  Succeeded =>
    \A k \in 1..Len(OrigDoc) :
      LET b == OrigDoc[k]
          n == SavedDoc[Pos(OrigDoc, k)]
      IN  /\ (b.kind = "p" /\ ~HasTableMarker(b.text) /\ Justifying(b.text)) =>
               n.align = "justify"
          /\ (b.kind = "p" /\ ~HasTableMarker(b.text) /\ ~Justifying(b.text)) =>
               n.align = b.align
          /\ b.kind = "tbl" =>
               \A r \in 1..Len(b.rows) : \A c \in 1..Len(b.rows[r]) :
                 Justifying(CellText(b.rows[r][c])) =>
                   \A i \in 1..Len(n.rows[r][c].paras) :
                     n.rows[r][c].paras[i].align = "justify"

\* C6: a fill changes only marker occurrences: what is not a marker is the
\* same in the saved document as in the original.  Stated for the blocks that
\* stay (a paragraph with a table marker is replaced whole): they keep their
\* kind and order, a table keeps its rows and cells, a cell keeps its
\* paragraphs, and a paragraph of a cell that holds no marker keeps its text
\* and alignment.
C6_OnlyMarkersChange ==
  Succeeded =>
    \A k \in 1..Len(OrigDoc) :
      LET b == OrigDoc[k]
          n == SavedDoc[Pos(OrigDoc, k)]
      IN  /\ ~IsMarkerPara(b) => n.kind = b.kind
          /\ (b.kind = "p" /\ ~HasAnyMarker(b.text)) => n = b
          /\ b.kind = "tbl" =>
               /\ Len(n.rows) = Len(b.rows)
               /\ \A r \in 1..Len(b.rows) :
                    /\ Len(n.rows[r]) = Len(b.rows[r])
                    /\ \A c \in 1..Len(b.rows[r]) :
                         LET ps == b.rows[r][c].paras
                             qs == n.rows[r][c].paras
                         IN  /\ Len(qs) = Len(ps)
                             /\ \A i \in 1..Len(ps) :
                                  ~HasAnyMarker(ps[i].text) => qs[i] = ps[i]

PathIn(text, path) ==
  \E i \in 1..(Len(text) - 1) : text[i] = path.stem /\ text[i + 1] = path.ext

\* a marker paragraph whose list has an entry without one of the keys the
\* columns are read from
MissingKey(blocks, a) ==
  \E k \in 1..Len(blocks) :
    /\ IsMarkerPara(blocks[k])
    /\ \E i \in 1..Len(ItemsFor(blocks[k], a)) :
         \E j \in 1..Len(KeysFor(blocks[k])) :
           KeysFor(blocks[k])[j] \notin DOMAIN ItemsFor(blocks[k], a)[i]

ExtensionOk(path) == path.ext \in {".doc", ".docx", ".DOC", ".DOCX"}

\* C7: the call never raises to its caller and never writes on failure: a
\* nonexistent path gives an error value that contains the path; an exception
\* raised while opening the document or while building the tables (an entry
\* without a required key) gives an error value; in every such case nothing is
\* saved and every file is as it was.
C7_ErrorsAreValues ==
  Called =>
    /\ ret.key \in {"message", "error"}
    /\ fs0[call.path].kind = "none" =>
         ret.key = "error" /\ PathIn(ret.text, call.path)
    /\ (fs0[call.path].kind = "raw" /\ ExtensionOk(call.path)) =>
         ret.key = "error" /\ PathIn(ret.text, call.path)
    /\ (fs0[call.path].kind = "docx" /\ ExtensionOk(call.path)
          /\ MissingKey(OrigDoc, call)) =>
         ret.key = "error" /\ ret.text[2] \in {"actividad", "mes", "descripcion", "verificador"}
    /\ ret.key = "error" => saves = 0 /\ fs = fs0

\* a key is missing for the second table after the first was built in memory
C7_Witness ==
  /\ Called /\ ret = KeyError("verificador") /\ fs = fs0 /\ saves = 0
  /\ \E i, j \in 1..Len(OrigDoc) :
       /\ i < j
       /\ Contains(OrigDoc[i].text, TitleMarker)
       /\ Contains(OrigDoc[j].text, DescriptionMarker)

\* C8 as first stated: for every path whose extension is not a supported one,
\* whether or not a file exists there, the call returns the unsupported-format
\* error and never opens the file.
C8_UnsupportedAlways ==
  (Called /\ ~ExtensionOk(call.path)) => ret = UnsupportedError /\ opened = 0

\* C8: for every path whose extension is not a supported one the call never
\* opens or writes a file; it returns the unsupported-format error if a file
\* exists at the path and the does-not-exist error naming the path if none does.
C8_Unsupported ==
  (Called /\ ~ExtensionOk(call.path)) =>
    /\ opened = 0 /\ saves = 0 /\ fs = fs0
    /\ fs0[call.path].kind # "none" => ret = UnsupportedError
    /\ fs0[call.path].kind = "none" => ret = NotFoundError(call.path)

\* a call on an existing .txt file that holds a document with markers
C8_Witness ==
  /\ Called /\ call.path = NotesPath /\ ret = UnsupportedError /\ opened = 0
  /\ MarkerToFind(OrigDoc)

Anchor == Para(<<>>, "none")

\* the table a marker paragraph stands for: the header row, then one row for
\* each entry of its list
GeneratedTable(b, a) ==
  Tbl(<<HeaderRow(HeadersFor(b))>> \o
      [r \in 1..Len(ItemsFor(b, a)) |->
         [c \in 1..Len(KeysFor(b)) |-> SetCellText(ItemsFor(b, a)[r][KeysFor(b)[c]])]])

\* the template with every marker paragraph replaced, where it stands, by an
\* anchor and its table, and the plain-text markers of every block substituted
RECURSIVE ExpectedBody(_, _)
ExpectedBody(blocks, a) ==
  IF Len(blocks) = 0 THEN <<>>
  ELSE LET b == Head(blocks)
           here == IF IsMarkerPara(b)
                   THEN <<Anchor, [GeneratedTable(b, a) EXCEPT !.rows = FillRowsOf(@, a)]>>
                   ELSE IF b.kind = "p" THEN <<FillPara(b, a)>>
                   ELSE IF b.kind = "tbl" THEN <<[b EXCEPT !.rows = FillRowsOf(@, a)]>>
                   ELSE <<b>>
       IN  here \o ExpectedBody(Tail(blocks), a)

\* C10: whatever the number and the positions of the table-marker paragraphs,
\* each is replaced, at its own position among its siblings, by an empty anchor
\* paragraph immediately followed by the table generated for it; the other
\* blocks keep their order and the tables come in the order of their markers.
C10_TablesInPlace ==
  Succeeded => SavedDoc = ExpectedBody(OrigDoc, call)

\* two marker paragraphs of different kinds filled in one call
C10_Witness ==
  /\ Succeeded
  /\ \E i, j \in 1..Len(OrigDoc) :
       /\ i < j
       /\ Contains(OrigDoc[i].text, DescriptionMarker)
       /\ Contains(OrigDoc[j].text, TitleMarker)
       /\ SavedDoc[Pos(OrigDoc, i) + 1].kind = "tbl"
       /\ Len(SavedDoc[Pos(OrigDoc, i) + 1].rows[1]) = 3
       /\ SavedDoc[Pos(OrigDoc, j) + 1].kind = "tbl"
       /\ Len(SavedDoc[Pos(OrigDoc, j) + 1].rows[1]) = 2

(***************************************************************************)
(* The claim about change_month_in_name                                    *)
(***************************************************************************)
RenameCalled == call.op = "change_month_in_name"

\* the positions and months at which a month name occurs in the name
MonthsIn(name) ==
  {<<i, k>> \in (1..Len(name)) \X (1..Len(months)) :
     /\ i + Len(months[k]) - 1 <= Len(name)
     /\ LowerName(SubSeq(name, i, i + Len(months[k]) - 1)) = months[k]}

\* the names got by replacing one month name of the name by the current month
MonthReplaced(name, repl) ==
  {SubSeq(name, 1, m[1] - 1) \o repl \o SubSeq(name, m[1] + Len(months[m[2]]), Len(name)) :
     m \in MonthsIn(name)}

\* C9: after change_month_in_name on an existing folder, for any set of file
\* names, every regular file whose name contains a month name is found, with
\* its content, under the name with that month name replaced by the current
\* month's uppercase Spanish name, and the result list has one success message
\* for it; a file whose name has no month name keeps its name; no file present
\* before the call is lost.
C9_RenamedNoneLost ==
  (RenameCalled /\ folder0.kind = "dir") =>
    /\ \A e \in folder0.entries :
         e.kind = "file" =>
           IF MonthsIn(e.name) # {}
           THEN /\ \E f \in folder.entries :
                     /\ f.data = e.data
                     /\ f.name \in MonthReplaced(e.name, spanish_months[call.now])
                /\ Cardinality({i \in 1..Len(ret.list) :
                                  /\ ret.list[i].key = "message"
                                  /\ ret.list[i].text[2] = e.name}) = 1
           ELSE e \in folder.entries
    /\ \A e \in folder0.entries :
         \E f \in folder.entries : f.data = e.data /\ f.kind = e.kind

(***************************************************************************)
(* The claim about two invocations in flight                               *)
(***************************************************************************)
\* task i holds a document it has opened and has not saved
HoldsDocument(i) == tasks[i].pc \in {"opened", "filled"}

\* both invocations are on the same path
SamePath(i, j) == tasks[i].args.path = tasks[j].args.path

\* both invocations have returned, i before j
ReturnedInOrder(i, j) == finished = <<i, j>>

\* C11 as stated: two invocations on the same path race on open and save.
\* The interleaving of the claim, in which both open before either saves,
\* passes through a state in which one invocation holds the document it has
\* opened and the other, created and not yet started, takes its open step; the
\* claim says that step can be taken there.
C11_RaceOnOpenSave ==
  \A i, j \in Tasks :
    (i # j /\ SamePath(i, j) /\ HoldsDocument(i) /\ tasks[j].pc = "ready")
      => ENABLED open(j)

\* C11 amended: two invocations the host has in flight at once on the same
\* path never both hold the opened document: the body has no await, so the
\* one the event loop starts first opens, fills and saves before the other
\* opens, the other opens the file the first one left, and the file and the
\* two results are those of the two calls made one after the other.
C11_Serialized ==
  \A i, j \in Tasks :
    (i # j /\ SamePath(i, j)) =>
      /\ ~(HoldsDocument(i) /\ HoldsDocument(j))
      /\ ReturnedInOrder(i, j) =>
           LET first == Generate(fs0, tasks[i].args)
               second == Generate(first.fs, tasks[j].args)
           IN  /\ tasks[i].ret = first.ret
               /\ tasks[j].ret = second.ret
               /\ fs = second.fs

\* C11 witness: two invocations on the document, in flight at once, have both
\* returned the success message, and the file holds the work of both
C11_Witness ==
  \E i, j \in Tasks :
    /\ i # j
    /\ ReturnedInOrder(i, j)
    /\ tasks[i].overlap /\ tasks[j].overlap
    /\ tasks[i].args.path = ReportPath /\ tasks[j].args.path = ReportPath
    /\ tasks[i].ret = Saved(ReportPath) /\ tasks[j].ret = Saved(ReportPath)
    /\ tasks[i].args.month # tasks[j].args.month
    /\ fs # Generate(fs0, tasks[i].args).fs
    /\ fs # Generate(fs0, tasks[j].args).fs

====
